---- MODULE Spec2Model ----
(***************************************************************************)
(* Tic-tac-toe: the Board, the Game state machine, the minimax AI and the  *)
(* main loop of topics/tic-tac-toe/src.                                    *)
(***************************************************************************)
EXTENDS Integers, Sequences, FiniteSets, TLC

VARIABLES cells, current_player, state, result

game_vars == <<cells, current_player, state>>
vars == <<cells, current_player, state, result>>

\* ---------------------------------------------------------------- bounds
\* make_move is called with positions 0..MaxPosition (9 and above are out of range)
MaxPosition == 9

\* ---------------------------------------------------------------- types.rs
Human == "Human"
AI == "AI"
Player == {Human, AI}

opponent(p) == IF p = Human THEN AI ELSE Human

Empty == "Empty"
Occupied(p) == p

is_empty(cell) == cell = Empty

\* ---------------------------------------------------------------- board.rs
BoardSize == 9

Board_new == [i \in 0..(BoardSize - 1) |-> Empty]

\* Board::get : Option<Cell>, "None" outside the array
Board_get(b, position) ==
    IF position \in DOMAIN b THEN b[position] ELSE "None"

\* variant: the occupancy test is missing, an occupied cell is overwritten
Board_make_move_NoEmptyCheck(b, position, player) ==
    IF position >= BoardSize
    THEN <<b, FALSE>>
    ELSE <<[b EXCEPT ![position] = Occupied(player)], TRUE>>

\* Board::make_move : <<board after the call, returned flag>>
Board_make_move(b, position, player) ==
    IF position >= BoardSize
    THEN <<b, FALSE>>
    ELSE IF is_empty(b[position])
         THEN <<[b EXCEPT ![position] = Occupied(player)], TRUE>>
         ELSE <<b, FALSE>>

PositionSeq == [i \in 1..BoardSize |-> i - 1]

\* Board::available_moves : empty positions in ascending index order
Board_available_moves(b) ==
    SelectSeq(PositionSeq, LAMBDA i : is_empty(b[i]))

Board_is_full(b) == \A i \in DOMAIN b : ~is_empty(b[i])

\* ---------------------------------------------------------------- game.rs
InProgress == "InProgress"
Won(p) == IF p = Human THEN "Won(Human)" ELSE "Won(AI)"
Draw == "Draw"

\* a Game value
GameOf(b, p, s) == [board |-> b, current_player |-> p, state |-> s]

Game_new == GameOf(Board_new, Human, InProgress)

\* variant: the top-right to bottom-left diagonal is not checked
check_winner_NoAntiDiagonal(b, player) ==
    LET target == Occupied(player) IN
    \/ \E row \in 0..2 :
          /\ b[row * 3] = target
          /\ b[row * 3 + 1] = target
          /\ b[row * 3 + 2] = target
    \/ \E col \in 0..2 :
          b[col] = target /\ b[col + 3] = target /\ b[col + 6] = target
    \/ (b[0] = target /\ b[4] = target /\ b[8] = target)

\* Game::check_winner : rows, then columns, then the two diagonals
check_winner(b, player) ==
    LET target == Occupied(player) IN
    \/ \E row \in 0..2 :
          /\ b[row * 3] = target
          /\ b[row * 3 + 1] = target
          /\ b[row * 3 + 2] = target
    \/ \E col \in 0..2 :
          b[col] = target /\ b[col + 3] = target /\ b[col + 6] = target
    \/ (b[0] = target /\ b[4] = target /\ b[8] = target)
    \/ (b[2] = target /\ b[4] = target /\ b[6] = target)

\* variant: the full-board test is missing
update_state_NoDraw(g) ==
    IF check_winner(g.board, g.current_player)
    THEN [g EXCEPT !.state = Won(g.current_player)]
    ELSE g

\* Game::update_state : only the current player is tested for a win
update_state(g) ==
    IF check_winner(g.board, g.current_player)
    THEN [g EXCEPT !.state = Won(g.current_player)]
    ELSE IF Board_is_full(g.board)
         THEN [g EXCEPT !.state = Draw]
         ELSE g

from_board(b, player) == update_state(GameOf(b, player, InProgress))

\* variant: the player is never switched
Game_make_move_NoSwitch(g, position) ==
    IF g.state # InProgress
    THEN <<g, FALSE>>
    ELSE LET r == Board_make_move(g.board, position, g.current_player) IN
         IF ~r[2]
         THEN <<g, FALSE>>
         ELSE <<update_state([g EXCEPT !.board = r[1]]), TRUE>>

\* variant: the game-over test at the top is missing
Game_make_move_NoOverCheck(g, position) ==
    LET r == Board_make_move(g.board, position, g.current_player) IN
    IF ~r[2]
    THEN <<g, FALSE>>
    ELSE LET g1 == update_state([g EXCEPT !.board = r[1]]) IN
         IF g1.state = InProgress
         THEN <<[g1 EXCEPT !.current_player = opponent(g1.current_player)], TRUE>>
         ELSE <<g1, TRUE>>

\* variant: the player is switched even when the move ended the game
Game_make_move_AlwaysSwitch(g, position) ==
    IF g.state # InProgress
    THEN <<g, FALSE>>
    ELSE LET r == Board_make_move(g.board, position, g.current_player) IN
         IF ~r[2]
         THEN <<g, FALSE>>
         ELSE LET g1 == update_state([g EXCEPT !.board = r[1]]) IN
              <<[g1 EXCEPT !.current_player = opponent(g1.current_player)], TRUE>>

\* Game::make_move : <<game after the call, returned flag>>
Game_make_move(g, position) ==
    IF g.state # InProgress
    THEN <<g, FALSE>>
    ELSE LET r == Board_make_move(g.board, position, g.current_player) IN
         IF ~r[2]
         THEN <<g, FALSE>>
         ELSE LET g1 == update_state([g EXCEPT !.board = r[1]]) IN
              IF g1.state = InProgress
              THEN <<[g1 EXCEPT !.current_player = opponent(g1.current_player)], TRUE>>
              ELSE <<g1, TRUE>>

available_moves(g) == Board_available_moves(g.board)

\* variant: the two scores are swapped
evaluate_SignsSwapped(g) ==
    IF check_winner(g.board, AI) THEN -10
    ELSE IF check_winner(g.board, Human) THEN 10
    ELSE 0

evaluate(g) ==
    IF check_winner(g.board, AI) THEN 10
    ELSE IF check_winner(g.board, Human) THEN -10
    ELSE 0

\* ---------------------------------------------------------------- ai.rs
I32_MIN == -2147483647 - 1
I32_MAX == 2147483647

AI_player == AI

RECURSIVE CopyBoard(_, _, _)
\* the copy loop of simulate_move: for i in 0..9, replay each occupied cell
CopyBoard(src, dst, i) ==
    IF i >= BoardSize THEN dst
    ELSE LET c == Board_get(src, i) IN
         IF c \in Player
         THEN CopyBoard(src, Board_make_move(dst, i, c)[1], i + 1)
         ELSE CopyBoard(src, dst, i + 1)

create_game_from_board(b, next_player) == from_board(b, next_player)

\* variant: the new mark is placed for the opponent of player
simulate_move_WrongMark(g, position, player) ==
    LET new_board == CopyBoard(g.board, Board_new, 0) IN
    create_game_from_board(Board_make_move(new_board, position, opponent(player))[1],
                           opponent(player))

simulate_move(g, position, player) ==
    LET new_board == CopyBoard(g.board, Board_new, 0) IN
    create_game_from_board(Board_make_move(new_board, position, player)[1],
                           opponent(player))

\* i32::max and i32::min folded over the scores a loop has seen
MaxOf(scores) == CHOOSE x \in scores : \A y \in scores : x >= y
MinOf(scores) == CHOOSE x \in scores : \A y \in scores : x <= y

RECURSIVE minimax(_, _, _)

\* the maximizing loop of minimax: best_score starts at i32::MIN and takes
\* the max with the score of every available move
MaxLoop(g, depth, moves) ==
    MaxOf({I32_MIN} \cup
          {minimax(simulate_move(g, moves[k], AI), depth + 1, FALSE) :
              k \in 1..Len(moves)})

\* variant: the minimizing loop combines with max, as the maximizing loop does
MinLoop_TakesMax(g, depth, moves) ==
    MaxOf({I32_MAX} \cup
          {minimax(simulate_move(g, moves[k], Human), depth + 1, TRUE) :
              k \in 1..Len(moves)})

\* the minimizing loop of minimax: best_score starts at i32::MAX and takes
\* the min with the score of every available move
MinLoop(g, depth, moves) ==
    MinOf({I32_MAX} \cup
          {minimax(simulate_move(g, moves[k], Human), depth + 1, TRUE) :
              k \in 1..Len(moves)})

\* variant: a win is scored 10 whatever the depth
minimax_WinNoDepth(g, depth, is_maximizing) ==
    LET score == evaluate(g) IN
    IF score = 10 THEN score
    ELSE IF score = -10 THEN score + depth
    ELSE LET moves == available_moves(g) IN
         IF Len(moves) = 0 THEN 0
         ELSE IF is_maximizing
              THEN MaxLoop(g, depth, moves)
              ELSE MinLoop(g, depth, moves)

\* variant: a loss is scored -10 whatever the depth
minimax_LossNoDepth(g, depth, is_maximizing) ==
    LET score == evaluate(g) IN
    IF score = 10 THEN score - depth
    ELSE IF score = -10 THEN score
    ELSE LET moves == available_moves(g) IN
         IF Len(moves) = 0 THEN 0
         ELSE IF is_maximizing
              THEN MaxLoop(g, depth, moves)
              ELSE MinLoop(g, depth, moves)

minimax(g, depth, is_maximizing) ==
    LET score == evaluate(g) IN
    IF score = 10 THEN score - depth
    ELSE IF score = -10 THEN score + depth
    ELSE LET moves == available_moves(g) IN
         IF Len(moves) = 0 THEN 0
         ELSE IF is_maximizing
              THEN MaxLoop(g, depth, moves)
              ELSE MinLoop(g, depth, moves)

\* score of one candidate of find_best_move
CandidateScore(g, position) ==
    minimax(simulate_move(g, position, AI_player), 0, FALSE)

RECURSIVE BestLoop_Less(_, _, _, _, _)
\* variant: the comparison is reversed, so the first candidate is never replaced
BestLoop_Less(g, moves, k, best_score, best_move) ==
    IF k > Len(moves) THEN best_move
    ELSE LET score == CandidateScore(g, moves[k]) IN
         IF score < best_score
         THEN BestLoop_Less(g, moves, k + 1, score, moves[k])
         ELSE BestLoop_Less(g, moves, k + 1, best_score, best_move)

RECURSIVE BestLoop_GreaterEq(_, _, _, _, _)
\* variant: a candidate also replaces the best on an equal score
BestLoop_GreaterEq(g, moves, k, best_score, best_move) ==
    IF k > Len(moves) THEN best_move
    ELSE LET score == CandidateScore(g, moves[k]) IN
         IF score >= best_score
         THEN BestLoop_GreaterEq(g, moves, k + 1, score, moves[k])
         ELSE BestLoop_GreaterEq(g, moves, k + 1, best_score, best_move)

RECURSIVE BestLoop(_, _, _, _, _)
\* the candidate loop of find_best_move: replace only on a strictly greater score
BestLoop(g, moves, k, best_score, best_move) ==
    IF k > Len(moves) THEN best_move
    ELSE LET score == CandidateScore(g, moves[k]) IN
         IF score > best_score
         THEN BestLoop(g, moves, k + 1, score, moves[k])
         ELSE BestLoop(g, moves, k + 1, best_score, best_move)

None == <<>>
Some(x) == <<x>>

\* variant: the position is returned 1-based, as the main loop prints it
find_best_move_OneBased(g) ==
    LET moves == available_moves(g) IN
    IF Len(moves) = 0 THEN None
    ELSE Some(BestLoop(g, moves, 1, I32_MIN, moves[1]) + 1)

\* AI::find_best_move : None or Some(position)
find_best_move(g) ==
    LET moves == available_moves(g) IN
    IF Len(moves) = 0 THEN None
    ELSE Some(BestLoop(g, moves, 1, I32_MIN, moves[1]))

\* ---------------------------------------------------------------- state machine
TheGame == GameOf(cells, current_player, state)

Init ==
    /\ cells = Game_new.board
    /\ current_player = Game_new.current_player
    /\ state = Game_new.state
    /\ result = [op |-> "new"]

\* a call game.make_move(position)
MakeMove(position) ==
    LET r == Game_make_move(TheGame, position) IN
    /\ cells' = r[1].board
    /\ current_player' = r[1].current_player
    /\ state' = r[1].state
    /\ result' = [op |-> "make_move", ret |-> r[2]]

NextGame == \E position \in 0..MaxPosition : MakeMove(position)

SpecGame == Init /\ [][NextGame]_vars

\* a call ai.find_best_move(&game): the game is borrowed immutably.  The call
\* is made on a freshly constructed game and after each successful move, which
\* is every distinct game value.
FindBestMove ==
    /\ \/ result.op = "new"
       \/ (result.op = "make_move" /\ result.ret)
    /\ result' = [op |-> "find_best_move", ret |-> find_best_move(TheGame)]
    /\ UNCHANGED game_vars

NextAI ==
    \/ \E position \in 0..MaxPosition : MakeMove(position)
    \/ FindBestMove

SpecAI == Init /\ [][NextAI]_vars

\* the search of find_best_move, one simulate_move call per step: the result
\* holds the hypothetical game and the depth and is_maximizing arguments of
\* the minimax call it is passed to.
\* the candidate loop: simulate_move(game, position, self.player), minimax(.., 0, false)
SimulateRoot(position) ==
    /\ \/ result.op = "new"
       \/ (result.op = "make_move" /\ result.ret)
    /\ \E k \in 1..Len(available_moves(TheGame)) : available_moves(TheGame)[k] = position
    /\ result' = [op |-> "simulate_move",
                  ret |-> simulate_move(TheGame, position, AI_player),
                  depth |-> 0, is_maximizing |-> FALSE]
    /\ UNCHANGED game_vars

\* one iteration of a loop of minimax: entered only when evaluate is neither
\* 10 nor -10 and the position is one of available_moves
SimulateChild(position) ==
    /\ result.op = "simulate_move"
    /\ evaluate(result.ret) # 10
    /\ evaluate(result.ret) # -10
    /\ \E k \in 1..Len(available_moves(result.ret)) :
          available_moves(result.ret)[k] = position
    /\ result' = [op |-> "simulate_move",
                  ret |-> simulate_move(result.ret, position,
                                        IF result.is_maximizing THEN AI ELSE Human),
                  depth |-> result.depth + 1,
                  is_maximizing |-> ~result.is_maximizing]
    /\ UNCHANGED game_vars

NextSearch ==
    \/ \E position \in 0..MaxPosition : MakeMove(position)
    \/ FindBestMove
    \/ \E position \in 0..(BoardSize - 1) : SimulateRoot(position)
    \/ \E position \in 0..(BoardSize - 1) : SimulateChild(position)

SpecSearch == Init /\ [][NextSearch]_vars

\* ---------------------------------------------------------------- main.rs
\* the match at the top of the loop: a terminal state prints the outcome and breaks
Exit ==
    /\ result.op # "exit"
    /\ state # InProgress
    /\ result' = [op |-> "exit", outcome |-> state]
    /\ UNCHANGED game_vars

\* the human branch: get_human_move only returns a position of available_moves
HumanTurn(position) ==
    /\ result.op # "exit"
    /\ state = InProgress
    /\ current_player = Human
    /\ \E k \in 1..Len(available_moves(TheGame)) : available_moves(TheGame)[k] = position
    /\ MakeMove(position)

\* the AI branch: play find_best_move, or break when it returns None
AITurn ==
    /\ result.op # "exit"
    /\ state = InProgress
    /\ current_player # Human
    /\ LET best == find_best_move(TheGame) IN
       IF best # None
       THEN MakeMove(best[1])
       ELSE /\ result' = [op |-> "exit", outcome |-> "Error"]
            /\ UNCHANGED game_vars

NextMain ==
    \/ Exit
    \/ \E position \in 0..(BoardSize - 1) : HumanTurn(position)
    \/ AITurn

SpecMain == Init /\ [][NextMain]_vars

\* ---------------------------------------------------------------- properties
\* the eight winning lines
Lines == {{0, 1, 2}, {3, 4, 5}, {6, 7, 8}, {0, 3, 6}, {1, 4, 7}, {2, 5, 8},
          {0, 4, 8}, {2, 4, 6}}

HasLine(b, S) == \E L \in Lines : \A i \in L : b[i] = Occupied(S)

Marks(b, S) == Cardinality({i \in DOMAIN b : b[i] = Occupied(S)})

\* the cells a call changed
Placed == {i \in DOMAIN cells : cells[i] # cells'[i]}

\* C1: with the human playing any legal move and the computer playing the
\* position returned by find_best_move, Won(Human) is never reached and the
\* main loop only exits on Won(AI) or Draw.
C1_HumanNeverWins ==
    /\ state # Won(Human)
    /\ result.op = "exit" => result.outcome \in {Won(AI), Draw}

C1_Witness == result.op = "exit" /\ state = Won(AI)

\* C2: current_player is Human initially; a successful make_move that leaves
\* the state InProgress makes current_player the opponent of the side whose
\* mark was placed; a failed make_move leaves current_player alone.
C2_Alternation ==
    /\ current_player = Human
    /\ [][\A p \in 0..MaxPosition :
            MakeMove(p) =>
              /\ (result'.ret /\ state' = InProgress) =>
                    /\ Placed = {p}
                    /\ cells'[p] = Occupied(current_player)
                    /\ current_player' = opponent(cells'[p])
              /\ ~result'.ret => current_player' = current_player]_vars

C2_Witness ==
    /\ result = [op |-> "make_move", ret |-> TRUE]
    /\ state = InProgress
    /\ current_player = Human
    /\ Marks(cells, Human) = 2 /\ Marks(cells, AI) = 2

\* C3: make_move(p) with p occupied or p >= 9 returns false and leaves the
\* board, current_player and state as they were.
C3_IllegalMoveRejected ==
    [][\A p \in 0..MaxPosition :
          (MakeMove(p) /\ (p >= 9 \/ cells[p] # Empty)) =>
              (result'.ret = FALSE /\ UNCHANGED game_vars)]_vars

C3_Witness ==
    /\ result = [op |-> "make_move", ret |-> FALSE]
    /\ state = InProgress
    /\ \E i \in DOMAIN cells : cells[i] # Empty

\* C4: once state is not InProgress every make_move(p), also on an empty
\* in-range cell, returns false and leaves board, current_player and state.
C4_TerminalAbsorbing ==
    [][\A p \in 0..MaxPosition :
          (MakeMove(p) /\ state # InProgress) =>
              (result'.ret = FALSE /\ UNCHANGED game_vars)]_vars

C4_Witness ==
    /\ result = [op |-> "make_move", ret |-> FALSE]
    /\ state = Won(Human)
    /\ \E i \in DOMAIN cells : cells[i] = Empty

\* C5: for each side S, state = Won(S) exactly when one of the eight lines
\* has all three cells Occupied(S).
C5_WonIffLine == \A S \in Player : (state = Won(S)) <=> HasLine(cells, S)

C5_Witness == state = Won(AI) /\ \A i \in {2, 4, 6} : cells[i] = Occupied(AI)

\* C6: state = Draw exactly when all nine cells are occupied and no side has
\* a fully occupied line.
C6_DrawIffFullNoLine ==
    (state = Draw) <=>
        /\ \A i \in 0..8 : cells[i] # Empty
        /\ \A S \in Player : ~HasLine(cells, S)

C6_Witness == state = Draw /\ result = [op |-> "make_move", ret |-> TRUE]

\* the result of the last find_best_move call, made on the present game
Found == result.op = "find_best_move"

EmptyCells(b) == {i \in DOMAIN b : b[i] = Empty}

\* the empty cells that complete a line of side S
WinningCells(b, S) ==
    {i \in EmptyCells(b) :
        \E L \in Lines : i \in L /\ \A j \in L \ {i} : b[j] = Occupied(S)}

Lowest(set) == CHOOSE x \in set : \A y \in set : x <= y

\* C7: find_best_move returns None exactly when available_moves is empty, and
\* a returned Some(p) has p in 0..8 with cell p Empty.
C7_BestMoveLegal ==
    Found =>
        /\ (result.ret = None) <=> (EmptyCells(cells) = {})
        /\ result.ret # None =>
              /\ result.ret[1] \in 0..8
              /\ cells[result.ret[1]] = Empty

C7_Witness == Found /\ result.ret = None /\ state = Draw

RECURSIVE RefAIWins(_, _)
RECURSIVE RefAINotLoses(_, _)

\* reference plain minimax, no depth: the computer can force a win from b
\* with side turn to move
RefAIWins(b, turn) ==
    IF HasLine(b, AI) THEN TRUE
    ELSE IF HasLine(b, Human) THEN FALSE
    ELSE IF EmptyCells(b) = {} THEN FALSE
    ELSE IF turn = AI
         THEN \E i \in EmptyCells(b) : RefAIWins([b EXCEPT ![i] = AI], Human)
         ELSE \A i \in EmptyCells(b) : RefAIWins([b EXCEPT ![i] = Human], AI)

\* reference plain minimax: the computer can force a win or a draw
RefAINotLoses(b, turn) ==
    IF HasLine(b, AI) THEN TRUE
    ELSE IF HasLine(b, Human) THEN FALSE
    ELSE IF EmptyCells(b) = {} THEN TRUE
    ELSE IF turn = AI
         THEN \E i \in EmptyCells(b) : RefAINotLoses([b EXCEPT ![i] = AI], Human)
         ELSE \A i \in EmptyCells(b) : RefAINotLoses([b EXCEPT ![i] = Human], AI)

\* result class of the computer placing at q: 1 win, 0 draw, -1 loss
RefClass(b, q) ==
    LET child == [b EXCEPT ![q] = AI] IN
    IF RefAIWins(child, Human) THEN 1
    ELSE IF RefAINotLoses(child, Human) THEN 0
    ELSE -1

\* C8: in an InProgress state no legal move has a strictly better result
\* class, under the reference plain minimax, than the returned move.
C8_BestMoveOptimal ==
    (Found /\ state = InProgress) =>
        /\ result.ret # None
        /\ \A q \in EmptyCells(cells) :
              RefClass(cells, q) <= RefClass(cells, result.ret[1])

C8_Witness ==
    /\ Found /\ state = InProgress /\ current_player = AI
    /\ result.ret # None
    /\ \E q \in EmptyCells(cells) :
          RefClass(cells, q) < RefClass(cells, result.ret[1])

\* C9: when the computer has no immediately winning cell and the human has
\* exactly one, find_best_move returns that cell (the block).
C9_Blocks ==
    (/\ Found /\ state = InProgress
     /\ WinningCells(cells, AI) = {}
     /\ Cardinality(WinningCells(cells, Human)) = 1)
        => result.ret = Some(Lowest(WinningCells(cells, Human)))

C9_Witness ==
    /\ Found /\ state = InProgress
    /\ cells = [i \in 0..8 |-> IF i \in {0, 1} THEN Occupied(Human)
                               ELSE IF i = 3 THEN Occupied(AI) ELSE Empty]
    /\ result.ret = Some(2)

\* C10: when at least one empty cell completes a line of the computer,
\* find_best_move returns the lowest-index such cell.
C10_TakesWin ==
    (Found /\ state = InProgress /\ WinningCells(cells, AI) # {})
        => result.ret = Some(Lowest(WinningCells(cells, AI)))

C10_Witness ==
    /\ Found /\ state = InProgress
    /\ cells = [i \in 0..8 |-> IF i \in {0, 1, 8} THEN Occupied(Human)
                               ELSE IF i \in {3, 4} THEN Occupied(AI) ELSE Empty]
    /\ result.ret = Some(5)

\* a hypothetical game built by simulate_move during the search
Simulated == result.op = "simulate_move"

\* the board simulate_move was given: the real game's for the candidate loop,
\* the previous hypothetical game's inside minimax
ParentBoard == IF Simulated THEN result.ret.board ELSE cells

\* the side simulate_move places: self.player in the candidate loop, inside
\* minimax the computer when maximizing and the human when not
Mover == IF Simulated THEN (IF result.is_maximizing THEN AI ELSE Human) ELSE AI

\* C11: find_best_move and the simulate_move calls of its search leave the
\* real game's board, current_player and state as they were, and every
\* hypothetical game differs from its parent in exactly one cell, which was
\* Empty and now holds the mark of the side that was placed.
C11_SearchHasNoEffect ==
    [][/\ result'.op = "find_best_move" => UNCHANGED game_vars
       /\ result'.op = "simulate_move" =>
             /\ UNCHANGED game_vars
             /\ \E p \in 0..8 :
                   /\ {i \in 0..8 : result'.ret.board[i] # ParentBoard[i]} = {p}
                   /\ ParentBoard[p] = Empty
                   /\ result'.ret.board[p] = Occupied(Mover)]_vars

C11_Witness ==
    /\ Simulated /\ result.depth = 3
    /\ state = InProgress /\ current_player = AI
    /\ Marks(cells, Human) = 2

\* the state a board determines: Won(S) when S owns a line, otherwise Draw on
\* a full board, otherwise InProgress
DerivedStates(b) ==
    IF \E S \in Player : HasLine(b, S)
    THEN {Won(S) : S \in {T \in Player : HasLine(b, T)}}
    ELSE IF EmptyCells(b) = {} THEN {Draw} ELSE {InProgress}

\* C12: every hypothetical game built by simulate_move through from_board has
\* its state derived from the board: Won(S) if either side S owns a line,
\* otherwise Draw if the board is full, otherwise InProgress.
C12_FromBoardDerived ==
    Simulated => result.ret.state \in DerivedStates(result.ret.board)

EmptyCount(b) == Cardinality(EmptyCells(b))

\* C13: each successful make_move fills exactly one empty cell and a board
\* with nine marks is never InProgress; in the search started on a game with
\* n empty cells the minimax call at depth d holds a board with n - 1 - d
\* empty cells, so the recursion nests at most n - 1 levels and returns.
C13_Terminates ==
    /\ [](/\ EmptyCount(cells) = 0 => state # InProgress
          /\ Simulated =>
                /\ result.depth + EmptyCount(result.ret.board) + 1 = EmptyCount(cells)
                /\ result.depth <= BoardSize - 1)
    /\ [][(result'.op = "make_move" /\ result'.ret) =>
                /\ state = InProgress
                /\ EmptyCount(cells') = EmptyCount(cells) - 1]_vars

C13_Witness ==
    /\ Simulated /\ result.depth = 5
    /\ EmptyCount(result.ret.board) = 2
    /\ EmptyCount(cells) = 8
    /\ evaluate(result.ret) = 0

Highest(set) == CHOOSE x \in set : \A y \in set : x >= y

RECURSIVE SpecMinimax(_, _, _)

\* the specified evaluate: +10 if the computer has won, -10 if the human has
SpecEvaluate(b) ==
    IF HasLine(b, AI) THEN 10 ELSE IF HasLine(b, Human) THEN -10 ELSE 0

\* the specified minimax(state, depth, maximizing), on bare boards
SpecMinimax(b, depth, maximizing) ==
    LET e == SpecEvaluate(b) IN
    IF e = 10 THEN 10 - depth
    ELSE IF e = -10 THEN -10 + depth
    ELSE IF EmptyCells(b) = {} THEN 0
    ELSE IF maximizing
         THEN Highest({SpecMinimax([b EXCEPT ![i] = AI], depth + 1, FALSE) :
                          i \in EmptyCells(b)})
         ELSE Lowest({SpecMinimax([b EXCEPT ![i] = Human], depth + 1, TRUE) :
                          i \in EmptyCells(b)})

\* the legal positions with their minimax scores, depth counted from 0 as
\* find_best_move does, computed by the minimax above
Scored ==
    {<<q, SpecMinimax([cells EXCEPT ![q] = AI], 0, FALSE)>> : q \in EmptyCells(cells)}

\* the positions of a scored set that carry its maximum score
ArgMax(scored) ==
    {s[1] : s \in {t \in scored : t[2] = Highest({u[2] : u \in scored})}}

\* C14: find_best_move returns the lowest-index position among the legal
\* positions whose minimax score is the maximum over the legal positions.
C14_LowestIndexAmongBest ==
    (Found /\ result.ret # None) => result.ret = Some(Lowest(ArgMax(Scored)))

C14_Witness ==
    /\ Found /\ state = InProgress
    /\ EmptyCount(cells) = 4
    /\ Cardinality(ArgMax(Scored)) >= 2
    /\ ArgMax(Scored) # EmptyCells(cells)
    /\ result.ret = Some(Lowest(ArgMax(Scored)))

\* the specified choose_move: each candidate scored by minimax started at
\* depth 1, the first strictly greatest score in ascending order kept
SpecChooseMove(b) ==
    IF EmptyCells(b) = {} THEN None
    ELSE Some(Lowest(ArgMax({<<q, SpecMinimax([b EXCEPT ![q] = AI], 1, FALSE)>> :
                                q \in EmptyCells(b)})))

\* C15: the position find_best_move returns, with minimax started at depth 0,
\* is the position the specified choose_move returns with minimax started at
\* depth 1.
C15_SameAsDepthOne == Found => result.ret = SpecChooseMove(cells)

C15_Witness ==
    /\ Found /\ state = InProgress
    /\ cells = [i \in 0..8 |-> IF i \in {0, 8} THEN Occupied(Human)
                               ELSE IF i = 4 THEN Occupied(AI) ELSE Empty]
    /\ result.ret = SpecChooseMove(cells)
    /\ \E q \in EmptyCells(cells) :
          CandidateScore(TheGame, q) # SpecMinimax([cells EXCEPT ![q] = AI], 1, FALSE)

\* C16: at most one side owns a line, and evaluate is 10 exactly when state
\* is Won(AI), -10 exactly when it is Won(Human), 0 exactly when it is
\* InProgress or Draw.
C16_EvaluateMatchesState ==
    /\ ~(HasLine(cells, Human) /\ HasLine(cells, AI))
    /\ (evaluate(TheGame) = 10) <=> (state = Won(AI))
    /\ (evaluate(TheGame) = -10) <=> (state = Won(Human))
    /\ (evaluate(TheGame) = 0) <=> (state \in {InProgress, Draw})

C16_Witness == state = Won(Human) /\ evaluate(TheGame) = -10

\* C17: an InProgress game has a non-empty available_moves, and
\* find_best_move called on an InProgress game never returns None.
C17_InProgressHasMove ==
    /\ state = InProgress => Len(available_moves(TheGame)) > 0
    /\ (Found /\ state = InProgress) => result.ret # None

C17_Witness ==
    /\ Found /\ state = InProgress /\ current_player = AI
    /\ Len(available_moves(TheGame)) = 2
    /\ result.ret # None

\* C18: an occupied cell keeps its owner in every step, and a successful
\* make_move changes exactly one cell, from Empty to the mover's mark.
C18_CellsNeverReset ==
    [][/\ \A i \in 0..8 : cells[i] # Empty => cells'[i] = cells[i]
       /\ (result'.op = "make_move" /\ result'.ret) =>
             \E p \in 0..8 :
                /\ Placed = {p}
                /\ cells[p] = Empty
                /\ cells'[p] = Occupied(current_player)]_vars

C18_Witness ==
    /\ result = [op |-> "make_move", ret |-> TRUE]
    /\ Marks(cells, Human) = 3 /\ Marks(cells, AI) = 3

\* C19: a move that ends the game does not switch the player: in Won(S)
\* current_player is S, and in Draw it is Human, who placed the ninth mark.
C19_NoFlipAtEnd ==
    /\ \A S \in Player : state = Won(S) => current_player = S
    /\ state = Draw => (current_player = Human /\ Marks(cells, Human) = 5)

C19_Witness == state = Won(AI) /\ current_player = AI

\* C20: the human has as many marks as the computer or one more, and while
\* InProgress current_player is Human exactly when the counts are equal and
\* AI exactly when the human has one more.
C20_MarkCounts ==
    /\ Marks(cells, Human) - Marks(cells, AI) \in {0, 1}
    /\ state = InProgress =>
          /\ (current_player = Human) <=> (Marks(cells, Human) = Marks(cells, AI))
          /\ (current_player = AI) <=> (Marks(cells, Human) = Marks(cells, AI) + 1)

C20_Witness ==
    /\ state = InProgress /\ current_player = AI
    /\ Marks(cells, Human) = 4 /\ Marks(cells, AI) = 3

====
